---------------------------- MODULE Spec2Model ----------------------------
(***************************************************************************)
(* Model of the allergen detection / risk classification engine of         *)
(* allergy_app (utils/allergens.py) and of its use by POST /scan           *)
(* (main.py).  Texts are strings; a character is a string of length 1.     *)
(* Confidence values are exact rationals <<num, den>> in lowest terms.     *)
(***************************************************************************)
EXTENDS Integers, Sequences, FiniteSets, TLC

(***************************************************************************)
(* Characters and strings                                                  *)
(***************************************************************************)
Ch(s, i) == SubSeq(s, i, i)

UpperChars == "ABCDEFGHIJKLMNOPQRSTUVWXYZ"
LowerChars == "abcdefghijklmnopqrstuvwxyz"
DigitChars == "0123456789"

CharsOf(s) == {Ch(s, i) : i \in 1..Len(s)}

UpperSet == CharsOf(UpperChars)
LowerSet == CharsOf(LowerChars)
DigitSet == CharsOf(DigitChars)
WordSet == LowerSet \cup UpperSet \cup DigitSet \cup {"_"}
TokenSet == LowerSet \cup DigitSet
SpaceSet == {" ", "\t", "\n", "\r"}

\* str.lower() on one character (ASCII letters)
LowerChar(c) ==
    IF c \in UpperSet
    THEN Ch(LowerChars, CHOOSE i \in 1..Len(UpperChars) : Ch(UpperChars, i) = c)
    ELSE c

\* the characters of s, as a tuple
Chars(s) == <<>> \o [i \in 1..Len(s) |-> Ch(s, i)]

\* str.lower()
RECURSIVE StrLower(_)
StrLower(s) ==
    IF s = "" THEN ""
    ELSE IF Len(s) = 1 THEN LowerChar(s)
    ELSE LET h == Len(s) \div 2
         IN  StrLower(SubSeq(s, 1, h)) \o StrLower(SubSeq(s, h + 1, Len(s)))

\* str.split() separators
IsSpace(c) == c \in SpaceSet

\* regex \w : letters, digits and the underscore
IsWordChar(c) == c \in WordSet

\* the complement of the class [^a-z0-9] used by _tokenize
IsTokenChar(c) == c \in TokenSet

\* The maximal runs of characters of s that are not separators, in order;
\* sep[i] tells whether the i-th character of s is a separator.  This is
\* str.split() with the whitespace characters as separators, and
\* re.split(r"[^a-z0-9]+", s) followed by the `if t` filter with the
\* characters outside a-z0-9 as separators.
SplitRuns(s, sep) ==
    LET starts == {i \in 1..Len(s) : ~sep[i] /\ (i = 1 \/ sep[i - 1])}
        EndOf(i) == CHOOSE j \in i..Len(s) :
                        /\ \A k \in i..j : ~sep[k]
                        /\ j = Len(s) \/ sep[j + 1]
        Nth(n) == CHOOSE i \in starts : Cardinality({j \in starts : j < i}) = n - 1
    IN  [n \in 1..Cardinality(starts) |-> SubSeq(s, Nth(n), EndOf(Nth(n)))]

\* str.split()
SplitSpace(s) == SplitRuns(s, <<>> \o [i \in 1..Len(s) |-> IsSpace(Ch(s, i))])

\* " ".join(words)
RECURSIVE JoinSpace(_)
JoinSpace(words) ==
    IF words = <<>> THEN ""
    ELSE IF Len(words) = 1 THEN words[1]
    ELSE words[1] \o " " \o JoinSpace(Tail(words))

(***************************************************************************)
(* Optional text: <<>> is None, <<s>> is the string s                      *)
(***************************************************************************)
None == <<>>
Some(s) == <<s>>

\* a normalizer that lowercases without collapsing whitespace
LowerOnly(text) == IF text = None THEN "" ELSE StrLower(text[1])

\* _normalize_text
NormalizeText(text) ==
    IF text = None \/ text[1] = ""
    THEN ""
    ELSE JoinSpace(SplitSpace(StrLower(text[1])))

(***************************************************************************)
(* The catalog                                                             *)
(***************************************************************************)
ALLERGEN_KEYWORDS ==
    "nuts" :> <<"almond", "cashew", "hazelnut", "macadamia", "peanut", "pecan",
        "pistachio", "walnut", "nut", "praline", "marzipan", "nougat">> @@
    "dairy" :> <<"milk", "butter", "cheese", "cream", "yogurt", "lactose", "whey",
        "casein", "ghee", "yoghurt", "dairy", "lactate", "lactalbumin">> @@
    "gluten" :> <<"wheat", "barley", "rye", "oats", "flour", "bread", "pasta",
        "cereal", "gluten", "semolina", "spelt", "kamut", "bulgur", "couscous">> @@
    "eggs" :> <<"egg", "albumin", "albumen", "globulin", "lecithin", "livetin",
        "lysozyme", "mayonnaise", "meringue", "ovalbumin", "ovomucin">> @@
    "soy" :> <<"soy", "soya", "soybean", "tofu", "tempeh", "miso", "edamame", "shoyu",
        "tamari", "textured vegetable protein">> @@
    "shellfish" :> <<"shrimp", "crab", "lobster", "crayfish", "prawn", "scampi",
        "shellfish", "crustacean", "mollusc", "oyster", "clam", "mussel">> @@
    "fish" :> <<"fish", "anchovy", "bass", "cod", "flounder", "haddock", "halibut",
        "herring", "mackerel", "salmon", "sardine", "tuna", "tilapia">> @@
    "sesame" :> <<"sesame", "tahini", "sesamol", "gingelly", "benne">> @@
    "sulfites" :> <<"sulfite", "sulphite", "sulfur dioxide", "sulphur dioxide",
        "metabisulfite", "metabisulphite">> @@
    "mustard" :> <<"mustard", "senf", "moutarde">>

Allergens == DOMAIN ALLERGEN_KEYWORDS

KeywordsOf(a) == {ALLERGEN_KEYWORDS[a][i] : i \in 1..Len(ALLERGEN_KEYWORDS[a])}

(***************************************************************************)
(* Keyword patterns and re.search                                          *)
(***************************************************************************)
RegexMeta == CharsOf(".^$*+?{}[]|()")

\* the escaping of one keyword, line 132
RECURSIVE EscapeKeyword(_)
EscapeKeyword(kw) ==
    IF kw = "" THEN ""
    ELSE (IF Head(kw) \in RegexMeta THEN "\\" \o Head(kw) ELSE Head(kw))
         \o EscapeKeyword(Tail(kw))

\* rf"\b{escaped}\b"
BuildPattern(kw) == "\\b" \o EscapeKeyword(kw) \o "\\b"

\* _build_keyword_patterns: [rf"\b{re.escape(kw)}\b" for kw in keywords]
RECURSIVE BuildPatterns(_)
BuildPatterns(kws) ==
    IF kws = <<>> THEN <<>>
    ELSE <<BuildPattern(Head(kws))>> \o BuildPatterns(Tail(kws))

\* _build_keyword_patterns: the dict over the allergens in S
RECURSIVE BuildKeywordPatterns(_)
BuildKeywordPatterns(S) ==
    IF S = {} THEN <<>>
    ELSE LET a == CHOOSE x \in S : TRUE
         IN  (a :> BuildPatterns(ALLERGEN_KEYWORDS[a])) @@ BuildKeywordPatterns(S \ {a})

KEYWORD_PATTERNS == BuildKeywordPatterns(Allergens)

\* re.compile: the pattern as a tuple of atoms, "\\b" for the word-boundary
\* assertion and a single character for a literal (escaped or not)
RECURSIVE Compile(_)
Compile(pat) ==
    IF pat = "" THEN <<>>
    ELSE IF Head(pat) = "\\"
    THEN IF Ch(pat, 2) = "b"
         THEN <<"\\b">> \o Compile(SubSeq(pat, 3, Len(pat)))
         ELSE <<Ch(pat, 2)>> \o Compile(SubSeq(pat, 3, Len(pat)))
    ELSE <<Head(pat)>> \o Compile(Tail(pat))

\* the compiled patterns (the re module compiles each pattern once)
RECURSIVE CompileAll(_)
CompileAll(pats) ==
    IF pats = <<>> THEN <<>>
    ELSE <<Compile(Head(pats))>> \o CompileAll(Tail(pats))

RECURSIVE CompileDict(_)
CompileDict(S) ==
    IF S = {} THEN <<>>
    ELSE LET a == CHOOSE x \in S : TRUE
         IN  (a :> CompileAll(KEYWORD_PATTERNS[a])) @@ CompileDict(S \ {a})

COMPILED_PATTERNS == CompileDict(Allergens)

\* a pattern without its \b assertions: every position is a boundary
NoWordBoundary(c, p) == TRUE

\* \b at the position before character p of c (p in 1..Len(c)+1)
WordBoundary(c, p) ==
    LET before == p > 1 /\ IsWordChar(c[p - 1])
        after  == p <= Len(c) /\ IsWordChar(c[p])
    IN  before # after

\* The atoms from the k-th on match the characters c starting at position p;
\* literals compare case-insensitively (re.IGNORECASE).
RECURSIVE MatchAt(_, _, _, _)
MatchAt(atoms, k, c, p) ==
    IF k > Len(atoms) THEN TRUE
    ELSE IF atoms[k] = "\\b"
    THEN WordBoundary(c, p) /\ MatchAt(atoms, k + 1, c, p)
    ELSE /\ p <= Len(c)
         /\ LowerChar(c[p]) = LowerChar(atoms[k])
         /\ MatchAt(atoms, k + 1, c, p + 1)

\* re.search(pattern, s, flags=re.IGNORECASE) is not None, for the compiled
\* pattern atoms and the characters c of s
ReSearch(atoms, c) == \E p \in 1..(Len(c) + 1) : MatchAt(atoms, 1, c, p)

(***************************************************************************)
(* Tokens and grams                                                        *)
(***************************************************************************)
NotTokenChar(c) == ~IsTokenChar(c)

\* _tokenize
Tokenize(text) ==
    LET t == StrLower(text)
    IN  SplitRuns(t, <<>> \o [i \in 1..Len(t) |-> NotTokenChar(Ch(t, i))])

\* _ngram; range(len(tokens) - n + 1) is empty when len(tokens) < n
Ngram(tokens, n) ==
    IF Len(tokens) < n THEN <<>>
    ELSE [i \in 1..(Len(tokens) - n + 1) |-> JoinSpace(SubSeq(tokens, i, i + n - 1))]

SeqToSet(q) == {q[i] : i \in 1..Len(q)}

\* grams = set(tokens + _ngram(tokens, 2) + _ngram(tokens, 3))
Grams(tokens) == SeqToSet(tokens \o Ngram(tokens, 2) \o Ngram(tokens, 3))

(***************************************************************************)
(* Rationals                                                               *)
(***************************************************************************)
RECURSIVE Gcd(_, _)
Gcd(m, n) == IF n = 0 THEN m ELSE Gcd(n, m % n)

Rat(n, d) == LET g == Gcd(n, d) IN <<n \div g, d \div g>>

RGeq(p, q) == p[1] * q[2] >= q[1] * p[2]
RLess(p, q) == ~RGeq(p, q)

\* max(p, q)
RMax(p, q) == IF RGeq(p, q) THEN p ELSE q

(***************************************************************************)
(* difflib.SequenceMatcher(None, a, b).ratio()                             *)
(***************************************************************************)
\* length of the common run of a from i and b from j, inside a[..ahi], b[..bhi]
RECURSIVE CommonLen(_, _, _, _, _, _)
CommonLen(a, b, i, j, ahi, bhi) ==
    IF i > ahi \/ j > bhi THEN 0
    ELSE IF a[i] # b[j] THEN 0
    ELSE 1 + CommonLen(a, b, i + 1, j + 1, ahi, bhi)

\* find_longest_match: the longest block a[i..i+k-1] = b[j..j+k-1] within
\* a[alo..ahi], b[blo..bhi]; of the longest, the one earliest in a, then in b;
\* <<alo, blo, 0>> when no character matches.  (No element of b is junk: the
\* autojunk heuristic needs len(b) >= 200.)
FindLongestMatch(a, b, alo, ahi, blo, bhi) ==
    LET starts  == {p \in (alo..ahi) \X (blo..bhi) : a[p[1]] = b[p[2]]}
        blocks  == {<<p[1], p[2], CommonLen(a, b, p[1], p[2], ahi, bhi)>> : p \in starts}
        k       == CHOOSE n \in {m[3] : m \in blocks} : \A m \in blocks : m[3] <= n
        longest == {m \in blocks : m[3] = k}
        i0      == CHOOSE i \in {m[1] : m \in longest} : \A m \in longest : i <= m[1]
        j0      == CHOOSE j \in {m[2] : m \in longest} :
                       \A m \in longest : m[1] = i0 => j <= m[2]
    IN  IF starts = {} THEN <<alo, blo, 0>> ELSE <<i0, j0, k>>

\* get_matching_blocks: total size of the blocks found by recursing to the
\* left and to the right of the longest match
RECURSIVE MatchCount(_, _, _, _, _, _)
MatchCount(a, b, alo, ahi, blo, bhi) ==
    IF alo > ahi \/ blo > bhi THEN 0
    ELSE LET m == FindLongestMatch(a, b, alo, ahi, blo, bhi)
         IN  IF m[3] = 0 THEN 0
             ELSE m[3] + MatchCount(a, b, alo, m[1] - 1, blo, m[2] - 1)
                       + MatchCount(a, b, m[1] + m[3], ahi, m[2] + m[3], bhi)

\* fuzzy_ratio: 2.0 * matches / (len(a) + len(b)), 1.0 for two empty strings
fuzzy_ratio(a, b) ==
    IF Len(a) + Len(b) = 0 THEN <<1, 1>>
    ELSE Rat(2 * MatchCount(Chars(a), Chars(b), 1, Len(a), 1, Len(b)), Len(a) + Len(b))

(***************************************************************************)
(* Confidence maps                                                         *)
(***************************************************************************)
Zero == <<0, 1>>
One == <<1, 1>>
ADVISORY_CONFIDENCE == <<9, 10>>
\* a threshold below the risk floor
LowThreshold == <<3, 4>>

FUZZY_THRESHOLD == <<17, 20>>
RISK_FLOOR == <<17, 20>>

\* confidences.get(a, default)
Get(conf, a, default) == IF a \in DOMAIN conf THEN conf[a] ELSE default

\* a merge in which the new score overwrites the stored one
MergeOverwrite(conf, a, v) == (a :> v) @@ conf

\* allergen_confidence[a] = max(allergen_confidence.get(a, 0.0), v)
Merge(conf, a, v) == (a :> RMax(Get(conf, a, Zero), v)) @@ conf

\* a pass that adds to the sets without touching allergen_confidence
MergeNothing(conf, hits, v) == conf

\* Merge applied once with v for every allergen of hits
MergeAll(conf, hits, v) ==
    [a \in DOMAIN conf \cup hits |-> IF a \in hits THEN Merge(conf, a, v)[a] ELSE conf[a]]

(***************************************************************************)
(* detect_allergens: the pattern pass                                      *)
(***************************************************************************)
\* the allergens one of whose patterns is found in s (lines 162-167, 182-187)
PatternHits(s) ==
    LET c == Chars(s)
    IN  {a \in Allergens :
            \E i \in DOMAIN COMPILED_PATTERNS[a] : ReSearch(COMPILED_PATTERNS[a][i], c)}

(***************************************************************************)
(* detect_allergens: the advisory pass                                     *)
(***************************************************************************)
needle == "may contain"
window_after == 80

Min(m, n) == IF m <= n THEN m ELSE n

\* text[lo:hi] with 0-based lo <= hi
Slice(text, lo, hi) == SubSeq(text, lo + 1, Min(hi, Len(text)))

\* the greatest index instead of the least
RFind(text, sub, start) ==
    LET at == {i \in start..(Len(text) - Len(sub)) : Slice(text, i, i + Len(sub)) = sub}
    IN  IF at = {} THEN -1 ELSE CHOOSE i \in at : \A j \in at : i >= j

\* text.find(sub, start): the least 0-based index >= start, or -1
Find(text, sub, start) ==
    LET at == {i \in start..(Len(text) - Len(sub)) : Slice(text, i, i + Len(sub)) = sub}
    IN  IF at = {} THEN -1 ELSE CHOOSE i \in at : \A j \in at : i <= j

\* the while loop of lines 169-177
RECURSIVE MayContainIndices(_, _, _)
MayContainIndices(text, start, acc) ==
    LET idx == Find(text, needle, start)
    IN  IF idx = -1 THEN acc
        ELSE MayContainIndices(text, idx + Len(needle), Append(acc, idx))

\* line 181
Window(text, idx) == Slice(text, idx, idx + Len(needle) + window_after)

AdvisoryHits(text) ==
    LET may_contain_indices == MayContainIndices(text, 0, <<>>)
    IN  UNION {PatternHits(Window(text, may_contain_indices[n])) :
                   n \in 1..Len(may_contain_indices)}

(***************************************************************************)
(* Inputs                                                                  *)
(***************************************************************************)
MaxPieces == 2
MaxProfile == 2

\* fragments of ingredient lists; a text is a concatenation of at most
\* MaxPieces of them
\* an advisory followed by a rule of 75 dashes and a space, so that the window of
\* line 181 ends 3 characters into whatever follows
LongAdvisory ==
    "may contain --------------------------------------------------------------------------- "

Pieces ==
    {"may contain ", LongAdvisory, "Peanut", "peanuts ", "almon ", "donut ",
     "milk_", "milks ", "sulfur, dioxide ", "Eggs\n", " "}

RECURSIVE Concat(_)
Concat(q) == IF q = <<>> THEN "" ELSE Head(q) \o Concat(Tail(q))

Texts == {Concat(q) : q \in UNION {[1..n -> Pieces] : n \in 0..MaxPieces}}

\* product.ingredients_text: None or a text
IngredientTexts == {None} \cup {Some(t) : t \in Texts}

AllergenNames == {"nuts", "Nuts", "dairy", "sesame"}

\* current_user.allergens: None or a list of names
Profiles ==
    {None} \cup {Some(q) : q \in UNION {[1..n -> AllergenNames] : n \in 0..MaxProfile}}

\* detection results handed to compute_risk_level directly
RiskAllergens == {"nuts", "dairy"}
RiskScores == {<<1, 2>>, <<17, 20>>, <<9, 10>>, <<1, 1>>}
RiskConfidences == UNION {[D -> RiskScores] : D \in SUBSET RiskAllergens}

(***************************************************************************)
(* detect_allergens: the fuzzy pass                                        *)
(***************************************************************************)
\* every <<allergen, keyword>> of the catalog
Keywords == UNION {{<<a, kw>> : kw \in KeywordsOf(a)} : a \in Allergens}

\* Two upper bounds of ratio(a, b), used to skip pairs that cannot reach
\* FUZZY_THRESHOLD (difflib's real_quick_ratio and a weakening of its
\* quick_ratio): no more than min(len(a), len(b)) characters can match, and a
\* matched character of a occurs in b.
LengthsAllow(a, b) ==
    RGeq(<<2 * (IF Len(a) <= Len(b) THEN Len(a) ELSE Len(b)), Len(a) + Len(b)>>,
         FUZZY_THRESHOLD)

SharedAllow(a, b) ==
    LET inb    == CharsOf(b)
        shared == Cardinality({i \in 1..Len(a) : Ch(a, i) \in inb})
    IN  RGeq(<<2 * shared, Len(a) + Len(b)>>, FUZZY_THRESHOLD)

\* every <<allergen, keyword, g, score>> with score >= FUZZY_THRESHOLD
GramHits(g) ==
    LET near   == {k \in Keywords : LengthsAllow(k[2], g) /\ SharedAllow(k[2], g)}
        scored == {<<k[1], k[2], g, fuzzy_ratio(k[2], g)>> : k \in near}
    IN  {h \in scored : RGeq(h[4], FUZZY_THRESHOLD)}

\* the <<allergen, keyword, gram, score>> at which line 196 holds
FuzzyHits(grams) == UNION {GramHits(g) : g \in grams}

\* The orders in which `for gram in grams` can enumerate the grams of S.  The
\* iteration order of a set of strings is not fixed by the language (it
\* follows the per-process string hashes), so every order is possible; only
\* the relative order of the grams that reach the threshold matters.
Orders(S) ==
    {q \in [1..Cardinality(S) -> S] : \A i, j \in 1..Cardinality(S) : i # j => q[i] # q[j]}

\* a fuzzy pass that merges 1.0 in place of the score
FullScore(order, hits, a, kw) == One

\* the score at which the gram loop of keyword kw breaks: that of the first
\* gram, in enumeration order, that reaches the threshold
FirstScore(order, hits, a, kw) ==
    LET mine == {h \in hits : h[1] = a /\ h[2] = kw}
        n    == CHOOSE i \in 1..Len(order) :
                    /\ \E h \in mine : h[3] = order[i]
                    /\ \A j \in 1..(i - 1) : \A h \in mine : h[3] # order[j]
    IN  (CHOOSE h \in mine : h[3] = order[n])[4]

\* the keyword loop of lines 193-199 for allergen a, from keyword i on
RECURSIVE FuzzyKeywords(_, _, _, _, _)
FuzzyKeywords(conf, a, i, order, hits) ==
    IF i > Len(ALLERGEN_KEYWORDS[a]) THEN conf
    ELSE LET kw == ALLERGEN_KEYWORDS[a][i]
         IN  IF \E h \in hits : h[1] = a /\ h[2] = kw
             THEN FuzzyKeywords(Merge(conf, a, FirstScore(order, hits, a, kw)),
                                a, i + 1, order, hits)
             ELSE FuzzyKeywords(conf, a, i + 1, order, hits)

\* allergen_confidence after the fuzzy pass
FuzzyConfidence(conf, order, hits) ==
    LET found == {h[1] : h \in hits}
    IN  [a \in DOMAIN conf \cup found |->
            IF a \in found THEN FuzzyKeywords(conf, a, 1, order, hits)[a] ELSE conf[a]]

\* the scores the fuzzy pass merges at line 198, as <<"fuzzy", allergen, score>>
FuzzyAssigned(order, hits) ==
    {<<"fuzzy", h[1], FirstScore(order, hits, h[1], h[2])>> : h \in hits}

(***************************************************************************)
(* compute_risk_level                                                      *)
(***************************************************************************)
\* code points, ascending, of the characters that occur in allergen names
CodeOrder == " " \o DigitChars \o UpperChars \o "_" \o LowerChars

Ord(c) == CHOOSE i \in 1..Len(CodeOrder) : Ch(CodeOrder, i) = c

\* s < t for Python strings
RECURSIVE StrLess(_, _)
StrLess(s, t) ==
    IF t = "" THEN FALSE
    ELSE IF s = "" THEN TRUE
    ELSE IF Head(s) = Head(t) THEN StrLess(Tail(s), Tail(t))
    ELSE Ord(Head(s)) < Ord(Head(t))

\* sorted(S) for a set of strings
RECURSIVE Sorted(_)
Sorted(S) ==
    IF S = {} THEN <<>>
    ELSE LET m == CHOOSE s \in S : \A t \in S \ {s} : StrLess(s, t)
         IN  <<m>> \o Sorted(S \ {m})

SAFE == "safe"
WARNING == "warning"
DANGER == "danger"

\* a direct_only that does not subtract the advisory set
DirectOnlyNoSubtract(direct, may_contain) == direct

\* line 206
DirectOnly(direct, may_contain) == direct \ may_contain

\* line 205; user_allergens is None or Some(list)
UserSet(user_allergens) ==
    {StrLower(a) : a \in SeqToSet(IF user_allergens = None THEN <<>> ELSE user_allergens[1])}

\* a warning branch that drops an allergen without a confidence entry
WarningHitNoDefault(user_allergens, may_contain, confs) ==
    Sorted({a \in UserSet(user_allergens) \cap may_contain :
               RGeq(Get(confs, a, Zero), RISK_FLOOR)})

\* a danger branch that does not intersect with the profile
DirectHitAnyUser(user_allergens, direct, may_contain, confs) ==
    Sorted({a \in DirectOnly(direct, may_contain) : RGeq(Get(confs, a, One), RISK_FLOOR)})

\* line 209
DirectHit(user_allergens, direct, may_contain, confs) ==
    Sorted({a \in UserSet(user_allergens) \cap DirectOnly(direct, may_contain) :
               RGeq(Get(confs, a, One), RISK_FLOOR)})

\* line 213
WarningHit(user_allergens, may_contain, confs) ==
    Sorted({a \in UserSet(user_allergens) \cap may_contain :
               RGeq(Get(confs, a, <<9, 10>>), RISK_FLOOR)})

\* compute_risk_level; confidences is None or Some(map)
compute_risk_level(user_allergens, direct, may_contain, confidences) ==
    LET confs       == IF confidences = None THEN <<>> ELSE confidences[1]
        direct_hit  == DirectHit(user_allergens, direct, may_contain, confs)
        warning_hit == WarningHit(user_allergens, may_contain, confs)
    IN  IF direct_hit # <<>> THEN <<DANGER, direct_hit>>
        ELSE IF warning_hit # <<>> THEN <<WARNING, warning_hit>>
        ELSE <<SAFE, <<>>>>

(***************************************************************************)
(* State                                                                   *)
(***************************************************************************)
VARIABLES
    ingredients_text,     \* the argument of detect_allergens
    text,                 \* its normalized form, line 154
    pc,                   \* "call", "start", "pattern", "advisory", "done", "classified"
    direct_matches,       \* set of allergen ids
    may_contain_matches,  \* set of allergen ids
    allergen_confidence,  \* allergen id -> score
    assigned,             \* history: every <<pass, allergen, score>> merged so far
    first,                \* None, or Some(result) of an earlier call on the text
    user_allergens,       \* arguments and result of compute_risk_level
    confidences,
    risk_level,
    matched,
    pending,              \* updates of the three passes not yet applied to `shared`
    shared,               \* <<direct, mayContain, confidence>> built from the updates
    start,                \* the locals of the loop of lines 169-177
    may_contain_indices,
    products,             \* committed rows of the products table
    api_cache,            \* committed rows of the api_cache table
    scan_history,         \* product ids of the committed scan_history rows
    now,                  \* the clock, in days
    completed,            \* barcode -> day of its latest successful lookup
    response              \* what the latest request did

vars == <<ingredients_text, text, pc, direct_matches, may_contain_matches,
          allergen_confidence, assigned, first, user_allergens, confidences,
          risk_level, matched, pending, shared, start, may_contain_indices,
          products, api_cache, scan_history, now, completed, response>>

detection == <<direct_matches, may_contain_matches, allergen_confidence, assigned>>
verdict == <<user_allergens, confidences, risk_level, matched>>
replay == <<pending, shared>>
scan == <<start, may_contain_indices>>
store == <<products, api_cache, scan_history, now, completed, response>>

NoReplay ==
    /\ pending = {}
    /\ shared = <<{}, {}, <<>>>>

NoScan ==
    /\ start = 0
    /\ may_contain_indices = <<>>

\* an empty database, no request made yet
NoStore ==
    /\ products = {}
    /\ api_cache = {}
    /\ scan_history = {}
    /\ now = 0
    /\ completed = <<>>
    /\ response = [endpoint |-> "none", barcode |-> <<>>, status |-> 0,
                   upstream |-> FALSE, fresh |-> FALSE]

NoVerdict ==
    /\ user_allergens = None
    /\ confidences = None
    /\ risk_level = "none"
    /\ matched = <<>>

\* detect_allergens is about to be called on a product's ingredient text
Init ==
    /\ ingredients_text \in IngredientTexts
    /\ text = ""
    /\ pc = "call"
    /\ direct_matches = {}
    /\ may_contain_matches = {}
    /\ allergen_confidence = <<>>
    /\ assigned = {}
    /\ first = None
    /\ NoVerdict
    /\ NoReplay
    /\ NoScan
    /\ NoStore

\* line 154 and the initialisations of lines 158-160
Normalize ==
    /\ pc = "call"
    /\ text' = NormalizeText(ingredients_text)
    /\ direct_matches' = {}
    /\ may_contain_matches' = {}
    /\ allergen_confidence' = <<>>
    /\ assigned' = {}
    /\ pc' = "start"
    /\ UNCHANGED <<ingredients_text, first, verdict, replay, scan, store>>

\* lines 155-156
ReturnEmpty ==
    /\ pc = "start"
    /\ text = ""
    /\ pc' = "done"
    /\ UNCHANGED <<ingredients_text, text, detection, first, verdict, replay, scan, store>>

\* lines 162-167
PatternPass ==
    /\ pc = "start"
    /\ text # ""
    /\ LET hits == PatternHits(text)
       IN  /\ direct_matches' = direct_matches \cup hits
           /\ allergen_confidence' = MergeAll(allergen_confidence, hits, One)
           /\ assigned' = assigned \cup {<<"pattern", a, One>> : a \in hits}
    /\ pc' = "pattern"
    /\ UNCHANGED <<ingredients_text, text, may_contain_matches, first, verdict, replay, scan, store>>

\* lines 169-187
AdvisoryPass ==
    /\ pc = "pattern"
    /\ LET hits == AdvisoryHits(text)
       IN  /\ may_contain_matches' = may_contain_matches \cup hits
           /\ allergen_confidence' = MergeAll(allergen_confidence, hits, ADVISORY_CONFIDENCE)
           /\ assigned' = assigned \cup {<<"advisory", a, ADVISORY_CONFIDENCE>> : a \in hits}
    /\ pc' = "advisory"
    /\ UNCHANGED <<ingredients_text, text, direct_matches, first, verdict, replay, scan, store>>

\* lines 189-201
FuzzyPass ==
    /\ pc = "advisory"
    /\ LET hits == FuzzyHits(Grams(Tokenize(text)))
       IN  \E order \in Orders({h[3] : h \in hits}) :
               /\ direct_matches' = direct_matches \cup {h[1] : h \in hits}
               /\ allergen_confidence' = FuzzyConfidence(allergen_confidence, order, hits)
               /\ assigned' = assigned \cup FuzzyAssigned(order, hits)
    /\ pc' = "done"
    /\ UNCHANGED <<ingredients_text, text, may_contain_matches, first, verdict, replay, scan, store>>

\* detect_allergens is called once more on the same text (a later scan of the
\* same product, main.py line 235); the earlier result is kept for comparison
SecondCall ==
    /\ pc = "done"
    /\ first = None
    /\ first' = Some(<<direct_matches, may_contain_matches, allergen_confidence>>)
    /\ pc' = "call"
    /\ UNCHANGED <<ingredients_text, text, detection, verdict, replay, scan, store>>

\* compute_risk_level(u, direct, may_contain, c) on the current detection
ComputeRisk(u, c) ==
    /\ pc = "done"
    /\ LET r == compute_risk_level(u, direct_matches, may_contain_matches, c)
       IN  /\ risk_level' = r[1]
           /\ matched' = r[2]
    /\ user_allergens' = u
    /\ confidences' = c
    /\ pc' = "classified"
    /\ UNCHANGED <<ingredients_text, text, detection, first, replay, scan, store>>

\* scan_product, main.py lines 235-236
Scan == \E u \in Profiles : ComputeRisk(u, Some(allergen_confidence))

Next ==
    \/ Normalize
    \/ ReturnEmpty
    \/ PatternPass
    \/ AdvisoryPass
    \/ FuzzyPass
    \/ SecondCall
    \/ Scan

Spec == Init /\ [][Next]_vars

(***************************************************************************)
(* compute_risk_level on arbitrary arguments                               *)
(***************************************************************************)
RiskInit ==
    /\ ingredients_text = None
    /\ text = ""
    /\ pc = "done"
    /\ direct_matches \in SUBSET RiskAllergens
    /\ may_contain_matches \in SUBSET RiskAllergens
    /\ allergen_confidence \in RiskConfidences
    /\ assigned = {}
    /\ first = None
    /\ NoVerdict
    /\ NoReplay
    /\ NoScan
    /\ NoStore

Classify ==
    \E u \in Profiles : \E c \in {None, Some(allergen_confidence)} : ComputeRisk(u, c)

RiskNext == Classify

RiskSpec == RiskInit /\ [][RiskNext]_vars


(***************************************************************************)
(* The updates of the three passes, applied one statement at a time in    *)
(* any order                                                               *)
(***************************************************************************)
\* The statements a call has executed on the shared result, from its merge
\* history: for each <<pass, allergen, score>> a set add (lines 165, 185, 197)
\* and a confidence max (lines 166, 186, 198).  The hits of a pass depend on
\* the text only (PatternHits, AdvisoryHits, FuzzyHits); the score read back
\* by the max is the only use a pass makes of the shared result.
UpdatesOf(hist) ==
    UNION {{<<"add", x[1], x[2], Zero>>, <<"max", x[1], x[2], x[3]>>} : x \in hist}

\* one statement applied to sh = <<direct, mayContain, confidence>>
Apply(sh, u) ==
    IF u[1] = "add"
    THEN IF u[2] = "advisory"
         THEN <<sh[1], sh[2] \cup {u[3]}, sh[3]>>
         ELSE <<sh[1] \cup {u[3]}, sh[2], sh[3]>>
    ELSE <<sh[1], sh[2], Merge(sh[3], u[3], u[4])>>

\* the same statements are about to be run again on an empty result
StartReplay ==
    /\ pc = "done"
    /\ pc' = "replay"
    /\ pending' = UpdatesOf(assigned)
    /\ shared' = <<{}, {}, <<>>>>
    /\ UNCHANGED <<ingredients_text, text, detection, first, verdict, scan, store>>

\* any statement not yet run is run next
ApplyUpdate ==
    /\ pc = "replay"
    /\ \E u \in pending :
           /\ pending' = pending \ {u}
           /\ shared' = Apply(shared, u)
    /\ UNCHANGED <<ingredients_text, text, pc, detection, first, verdict, scan, store>>

OrderNext ==
    \/ Normalize
    \/ ReturnEmpty
    \/ PatternPass
    \/ AdvisoryPass
    \/ FuzzyPass
    \/ StartReplay
    \/ ApplyUpdate

OrderSpec == Init /\ [][OrderNext]_vars


(***************************************************************************)
(* The while loop of lines 169-177, one iteration at a time                *)
(***************************************************************************)
\* lines 173, 176, 177: the phrase is found at or after start
ScanFound ==
    /\ pc = "pattern"
    /\ LET idx == Find(text, needle, start)
       IN  /\ idx # -1
           /\ may_contain_indices' = Append(may_contain_indices, idx)
           /\ start' = idx + Len(needle)
    /\ UNCHANGED <<ingredients_text, text, pc, detection, first, verdict, replay, store>>

\* lines 173-175: no further occurrence, the loop is left
ScanBreak ==
    /\ pc = "pattern"
    /\ Find(text, needle, start) = -1
    /\ pc' = "scanned"
    /\ UNCHANGED <<ingredients_text, text, detection, first, verdict, replay, scan, store>>

ScanNext ==
    \/ Normalize
    \/ ReturnEmpty
    \/ PatternPass
    \/ ScanFound
    \/ ScanBreak

\* the loop body runs whenever the call has reached it
ScanSpec == Init /\ [][ScanNext]_vars /\ WF_vars(ScanFound \/ ScanBreak)


(***************************************************************************)
(* The product cache: sequential requests against the database             *)
(***************************************************************************)
Barcodes == {"0001", "0002"}

\* the clock runs for MaxNow days
MaxNow == 9
DAY == 24 * 3600

\* core/config.py, line 14
STALE_DAYS == 7

\* the ttl of the decorator on fetch_product, off_client.py line 41
ttl_seconds == 7 * 24 * 3600

\* the key_builder of fetch_product
CacheKey(barcode) == "OFF:product:" \o barcode

\* sqlite_cache's wrapper around fetch_product on the session's view `cache`
\* of api_cache, at time t; `up` is the status the upstream API would answer
\* with (0 for a missing product or a failed call)
fetch_product(cache, barcode, t, up) ==
    LET key   == CacheKey(barcode)
        entry == {e \in cache : e.key = key}
    IN  IF entry # {} /\ \A e \in entry : t - e.fetched_at <= ttl_seconds
        THEN [data |-> (CHOOSE e \in entry : TRUE).data, api_cache |-> cache,
              upstream |-> FALSE]
        ELSE [data |-> up,
              api_cache |-> (cache \ entry) \cup
                                {[key |-> key, data |-> up, fetched_at |-> t]},
              upstream |-> TRUE]

\* the id the database gives a new row
NextId(rows) == IF rows = {} THEN 1 ELSE 1 + (CHOOSE m \in {r.id : r \in rows} :
                                                  \A r \in rows : r.id <= m)

\* upsert_product_from_off on the session's view of the two tables; ok is
\* FALSE when it raises the 404
upsert_product_from_off(rows, cache, barcode, t, up) ==
    LET f        == fetch_product(cache, barcode, t, up)
        existing == {r \in rows : r.barcode = barcode}
    IN  IF f.data # 1
        THEN [ok |-> FALSE, products |-> rows, api_cache |-> f.api_cache,
              upstream |-> f.upstream, id |-> 0]
        ELSE IF existing # {}
        THEN [ok |-> TRUE,
              products |-> (rows \ existing) \cup
                               {[r EXCEPT !.last_fetched = t] : r \in existing},
              api_cache |-> f.api_cache, upstream |-> f.upstream,
              id |-> (CHOOSE r \in existing : TRUE).id]
        ELSE [ok |-> TRUE,
              products |-> rows \cup
                               {[id |-> NextId(rows), barcode |-> barcode, last_fetched |-> t]},
              api_cache |-> f.api_cache, upstream |-> f.upstream,
              id |-> NextId(rows)]

get_or_refresh_product(rows, cache, barcode, t, up) ==
    LET product == {r \in rows : r.barcode = barcode}
    IN  IF product # {} /\ \A r \in product : t - r.last_fetched <= STALE_DAYS * DAY
        THEN [ok |-> TRUE, products |-> rows, api_cache |-> cache, upstream |-> FALSE,
              id |-> (CHOOSE r \in product : TRUE).id]
        ELSE upsert_product_from_off(rows, cache, barcode, t, up)

\* a successful lookup of the barcode completed no more than STALE_DAYS ago
Fresh(barcode) ==
    /\ barcode \in DOMAIN completed
    /\ now - completed[barcode] <= STALE_DAYS * DAY

Completed(barcode) ==
    [b \in DOMAIN completed \cup {barcode} |-> IF b = barcode THEN now ELSE completed[b]]

Quiet == <<ingredients_text, text, pc, detection, first, verdict, replay, scan>>

\* POST /scan; barcode is None when the payload yields no barcode.  The
\* session is committed at line 246 only; a request that raises leaves the
\* session to be closed, which rolls back what it flushed.
ScanRequest(barcode, up) ==
    /\ pc = "serving"
    /\ IF barcode = None
       THEN /\ response' = [endpoint |-> "scan", barcode |-> None, status |-> 400,
                            upstream |-> FALSE, fresh |-> FALSE]
            /\ UNCHANGED <<products, api_cache, scan_history, completed>>
       ELSE LET r == get_or_refresh_product(products, api_cache, barcode[1], now, up)
            IN  /\ response' = [endpoint |-> "scan", barcode |-> barcode,
                                status |-> IF r.ok THEN 200 ELSE 404,
                                upstream |-> r.upstream, fresh |-> Fresh(barcode[1])]
                /\ IF r.ok
                   THEN /\ products' = r.products
                        /\ api_cache' = r.api_cache
                        /\ scan_history' = scan_history \cup {r.id}
                        /\ completed' = Completed(barcode[1])
                   ELSE UNCHANGED <<products, api_cache, scan_history, completed>>
    /\ UNCHANGED <<now, Quiet>>

\* GET /product/{barcode}; the handler returns without committing, and get_db
\* closes the session, which rolls back what the lookup flushed
ProductRequest(barcode, up) ==
    /\ pc = "serving"
    /\ LET r == get_or_refresh_product(products, api_cache, barcode, now, up)
       IN  /\ response' = [endpoint |-> "product", barcode |-> Some(barcode),
                           status |-> IF r.ok THEN 200 ELSE 404,
                           upstream |-> r.upstream, fresh |-> Fresh(barcode)]
           /\ completed' = IF r.ok THEN Completed(barcode) ELSE completed
    /\ UNCHANGED <<products, api_cache, scan_history, now, Quiet>>

\* a day passes between two requests
Tick ==
    /\ pc = "serving"
    /\ now < MaxNow * DAY
    /\ now' = now + DAY
    /\ UNCHANGED <<products, api_cache, scan_history, completed, response, Quiet>>

CacheInit ==
    /\ ingredients_text = None
    /\ text = ""
    /\ pc = "serving"
    /\ direct_matches = {}
    /\ may_contain_matches = {}
    /\ allergen_confidence = <<>>
    /\ assigned = {}
    /\ first = None
    /\ NoVerdict
    /\ NoReplay
    /\ NoScan
    /\ NoStore

CacheNext ==
    \/ \E b \in {None} \cup {Some(x) : x \in Barcodes} : \E up \in {0, 1} : ScanRequest(b, up)
    \/ \E b \in Barcodes : \E up \in {0, 1} : ProductRequest(b, up)
    \/ Tick

CacheSpec == CacheInit /\ [][CacheNext]_vars

(***************************************************************************)
(* Properties                                                              *)
(***************************************************************************)
AlnumSet == LowerSet \cup UpperSet \cup DigitSet
IsAlnum(c) == c \in AlnumSet

\* the 0-based indices at which kw occurs in t
Occurrences(kw, t) == {i \in 0..(Len(t) - Len(kw)) : Slice(t, i, i + Len(kw)) = kw}

\* the occurrence of kw at i is bounded by non-alphanumeric characters or
\* string edges
WholeWordAt(kw, t, i) ==
    /\ i = 0 \/ ~IsAlnum(Ch(t, i))
    /\ i + Len(kw) = Len(t) \/ ~IsAlnum(Ch(t, i + Len(kw) + 1))

WholeWord(kw, t) == \E i \in Occurrences(kw, t) : WholeWordAt(kw, t, i)

\* the maximal alphanumeric run of t around the n characters at i
WordAround(t, i, n) ==
    LET lo == CHOOSE l \in 0..i :
                  /\ \A k \in (l + 1)..i : IsAlnum(Ch(t, k))
                  /\ l = 0 \/ ~IsAlnum(Ch(t, l))
        hi == CHOOSE h \in (i + n)..Len(t) :
                  /\ \A k \in (i + n + 1)..h : IsAlnum(Ch(t, k))
                  /\ h = Len(t) \/ ~IsAlnum(Ch(t, h + 1))
    IN  Slice(t, lo, hi)

KeywordStrings == {k[2] : k \in Keywords}

\* kw occurs in t, only inside larger words that are not keywords, and no
\* other keyword of allergen a occurs in t
OnlyEmbedded(a, kw, t) ==
    /\ Occurrences(kw, t) # {}
    /\ \A i \in Occurrences(kw, t) :
           /\ ~WholeWordAt(kw, t, i)
           /\ WordAround(t, i, Len(kw)) \notin KeywordStrings
    /\ \A other \in KeywordsOf(a) \ {kw} : Occurrences(other, t) = {}

\* every occurrence in t of every keyword of a has a letter or digit next to it
AllEmbedded(a, t) ==
    \A kw \in KeywordsOf(a) : \A i \in Occurrences(kw, t) : ~WholeWordAt(kw, t, i)

\* an advisory window of t ends right after an occurrence of a keyword of a
\* that lies inside the window and is followed by a letter or digit
CutAfterKeyword(a, t) ==
    LET starts == MayContainIndices(t, 0, <<>>)
    IN  \E n \in 1..Len(starts) : \E kw \in KeywordsOf(a) : \E i \in Occurrences(kw, t) :
            /\ starts[n] <= i
            /\ i + Len(kw) = starts[n] + Len(needle) + window_after
            /\ i + Len(kw) < Len(t)
            /\ IsAlnum(Ch(t, i + Len(kw) + 1))

\* the lowercased profile handed to compute_risk_level
Profile ==
    {StrLower(n) : n \in SeqToSet(IF user_allergens = None THEN <<>> ELSE user_allergens[1])}

\* the confidence map handed to compute_risk_level ({} when None)
GivenConfidences == IF confidences = None THEN <<>> ELSE confidences[1]

Floor == <<17, 20>>

\* the allergens of the DANGER branch and of the WARNING branch
DangerSet ==
    {a \in Profile \cap (direct_matches \ may_contain_matches) :
        RGeq(IF a \in DOMAIN GivenConfidences THEN GivenConfidences[a] ELSE <<1, 1>>, Floor)}

WarningSet ==
    {a \in Profile \cap may_contain_matches :
        RGeq(IF a \in DOMAIN GivenConfidences THEN GivenConfidences[a] ELSE <<9, 10>>, Floor)}

\* q lists exactly the members of S, once each, in ascending order
SortedListOf(q, S) ==
    /\ SeqToSet(q) = S
    /\ Len(q) = Cardinality(S)
    /\ \A i \in 1..(Len(q) - 1) : StrLess(q[i], q[i + 1])

\* the scores history hist holds for allergen a, all passes or one pass
ScoresOf(hist, a) == {x[3] : x \in {y \in hist : y[2] = a}}
ScoresBy(hist, pass, a) == {x[3] : x \in {y \in hist : y[1] = pass /\ y[2] = a}}

MaxOf(S) == CHOOSE m \in S : \A r \in S : RGeq(m, r)

\* C1: when an allergen of the profile is in both direct and mayContain with
\* confidence >= 0.85, the verdict of a scan is DANGER and the allergen is in
\* the matched list.
C1_Precedence ==
    pc = "classified" =>
        \A a \in Profile \cap direct_matches \cap may_contain_matches :
            RGeq(IF a \in DOMAIN GivenConfidences THEN GivenConfidences[a] ELSE <<1, 1>>, Floor)
                => risk_level = DANGER /\ a \in SeqToSet(matched)

\* C2: for the text "may contain peanuts", detect_allergens returns "nuts" in
\* mayContain with confidence 0.9 and not in direct.
C2_AdvisoryOnly ==
    (pc = "done" /\ text = "may contain peanuts") =>
        /\ "nuts" \in may_contain_matches
        /\ "nuts" \notin direct_matches
        /\ Get(allergen_confidence, "nuts", Zero) = <<9, 10>>

\* C3: every keyword that occurs in the normalized text as a whole word,
\* bounded by non-alphanumeric characters or string edges, has its allergen
\* in direct with confidence 1.0 when detect_allergens returns.
C3_WholeWordDirect ==
    pc = "done" =>
        \A k \in Keywords :
            WholeWord(k[2], text) =>
                k[1] \in direct_matches /\ Get(allergen_confidence, k[1], Zero) = <<1, 1>>

\* C4, as stated: a keyword that occurs only embedded in larger words that are
\* not keywords, with no other keyword of its allergen in the text, leaves the
\* allergen out of direct and mayContain.
C4_EmbeddedNoMatch ==
    pc = "done" =>
        \A k \in Keywords :
            OnlyEmbedded(k[1], k[2], text) =>
                k[1] \notin direct_matches \cup may_contain_matches

\* C4, amended: when every occurrence of every keyword of an allergen has a
\* letter or digit next to it, the pattern pass does not detect the allergen;
\* it is in direct only through a fuzzy score >= 0.85, and in mayContain only
\* when an advisory window is cut right after one of its keywords.
C4_EmbeddedPatternSilent ==
    pc = "done" =>
        \A a \in Allergens :
            AllEmbedded(a, text) =>
                /\ ScoresBy(assigned, "pattern", a) = {}
                /\ a \in direct_matches =>
                       \E r \in ScoresBy(assigned, "fuzzy", a) : RGeq(r, <<17, 20>>)
                /\ a \in may_contain_matches => CutAfterKeyword(a, text)

\* "nut" occurs only inside a larger word and nothing is detected for nuts
C4_Witness ==
    /\ pc = "done"
    /\ OnlyEmbedded("nuts", "nut", text)
    /\ "nuts" \notin direct_matches \cup may_contain_matches

\* C5, as stated: without a whole-word keyword of A and without an advisory
\* phrase, a fuzzy hit below 1.0 for A puts A in direct with a confidence
\* that is >= 0.85 and strictly less than 1.0.
C5_FuzzyBelowOne ==
    pc = "done" =>
        \A a \in Allergens :
            ( /\ Occurrences(needle, text) = {}
              /\ \A kw \in KeywordsOf(a) : ~WholeWord(kw, text)
              /\ \E r \in ScoresBy(assigned, "fuzzy", a) : RLess(r, <<1, 1>>) )
            => /\ a \in direct_matches
               /\ RGeq(allergen_confidence[a], <<17, 20>>)
               /\ RLess(allergen_confidence[a], <<1, 1>>)

\* C5, amended: the fuzzy pass puts A in direct exactly when it scores a gram
\* >= 0.85 against a keyword of A; when no other pass detected A, the
\* confidence of A is one of those scores, lies in [0.85, 1.0], and is 1.0
\* only if a gram of the text is a keyword of A.
C5_FuzzyRatio ==
    pc = "done" =>
        \A a \in Allergens :
            LET fuzzy == ScoresBy(assigned, "fuzzy", a)
            IN  /\ (a \in direct_matches /\ ScoresBy(assigned, "pattern", a) = {})
                       => fuzzy # {}
                /\ fuzzy # {} => a \in direct_matches
                /\ (fuzzy # {} /\ ScoresOf(assigned, a) = fuzzy) =>
                       /\ allergen_confidence[a] \in fuzzy
                       /\ RGeq(allergen_confidence[a], <<17, 20>>)
                       /\ RGeq(<<1, 1>>, allergen_confidence[a])
                       /\ allergen_confidence[a] = <<1, 1>> =>
                              KeywordsOf(a) \cap Grams(Tokenize(text)) # {}

\* a near-match is the only detection of an allergen, below 1.0
C5_Witness ==
    /\ pc = "done"
    /\ Occurrences(needle, text) = {}
    /\ \E a \in direct_matches :
           /\ ScoresOf(assigned, a) = ScoresBy(assigned, "fuzzy", a)
           /\ RLess(allergen_confidence[a], <<1, 1>>)
           /\ \A kw \in KeywordsOf(a) : ~WholeWord(kw, text)

\* C6: at every point of detect_allergens, between the passes and on return,
\* the keys of allergen_confidence are exactly the allergens in direct or
\* mayContain.
C6_ConfidenceKeys ==
    DOMAIN allergen_confidence = direct_matches \cup may_contain_matches

\* between the advisory pass and the fuzzy pass, with detections in both sets
C6_Witness ==
    /\ pc = "advisory"
    /\ direct_matches # {}
    /\ may_contain_matches # {}

\* C7: within a call no confidence decreases, and every confidence is the
\* maximum of the scores the passes have merged for its allergen.
C7_MaxWins ==
    [][ /\ pc' # "start" =>
               \A a \in DOMAIN allergen_confidence :
                   /\ a \in DOMAIN allergen_confidence'
                   /\ RGeq(allergen_confidence'[a], allergen_confidence[a])
        /\ \A a \in DOMAIN allergen_confidence' :
               /\ ScoresOf(assigned', a) # {}
               /\ allergen_confidence'[a] = MaxOf(ScoresOf(assigned', a)) ]_vars

\* a pattern hit at 1.0 followed by a lower fuzzy score for the same allergen
C7_Witness ==
    /\ pc = "done"
    /\ \E a \in DOMAIN allergen_confidence :
           /\ ScoresBy(assigned, "pattern", a) # {}
           /\ \E r \in ScoresBy(assigned, "fuzzy", a) : RLess(r, <<1, 1>>)
           /\ allergen_confidence[a] = <<1, 1>>

\* C8: a second call of detect_allergens on the same text returns the same
\* direct, mayContain and confidence as the first.
C8_Deterministic ==
    (pc = "done" /\ first # None) =>
        first[1] = <<direct_matches, may_contain_matches, allergen_confidence>>

\* C9: the verdict is DANGER exactly when the DANGER set is non-empty, and
\* matched then lists that set in ascending order without duplicates.
C9_DangerBranch ==
    pc = "classified" =>
        /\ risk_level = DANGER <=> DangerSet # {}
        /\ risk_level = DANGER => SortedListOf(matched, DangerSet)

\* a mixed-case profile with two danger hits
C9_Witness ==
    /\ pc = "classified"
    /\ risk_level = DANGER
    /\ Len(matched) = 2
    /\ "Nuts" \in SeqToSet(user_allergens[1])

\* C10: without a danger hit the verdict is WARNING exactly when the WARNING
\* set is non-empty, with matched listing that set in ascending order, and
\* SAFE with an empty list otherwise; a profile disjoint from the detections
\* yields SAFE; the verdict is always one of the three.
C10_WarningSafe ==
    pc = "classified" =>
        /\ risk_level \in {SAFE, WARNING, DANGER}
        /\ DangerSet = {} =>
               /\ risk_level = WARNING <=> WarningSet # {}
               /\ risk_level = WARNING => SortedListOf(matched, WarningSet)
               /\ WarningSet = {} => risk_level = SAFE /\ matched = <<>>
        /\ Profile \cap (direct_matches \cup may_contain_matches) = {} =>
               risk_level = SAFE /\ matched = <<>>

\* a warning for an allergen that has no entry in the confidence map
C10_Witness ==
    /\ pc = "classified"
    /\ risk_level = WARNING
    /\ \E a \in SeqToSet(matched) : a \notin DOMAIN GivenConfidences

\* C11: compute_risk_level returns for every input, and for an absent or
\* empty profile the verdict is SAFE with an empty matched list, whatever the
\* detection sets and the confidence map.
C11_EmptyProfileSafe ==
    /\ pc = "done" => ENABLED Classify
    /\ (pc = "classified" /\ (user_allergens = None \/ user_allergens[1] = <<>>)) =>
           risk_level = SAFE /\ matched = <<>>

\* an absent profile, detections in both sets, no confidence map
C11_Witness ==
    /\ pc = "classified"
    /\ user_allergens = None
    /\ direct_matches \ may_contain_matches # {}
    /\ may_contain_matches # {}
    /\ confidences = None
    /\ risk_level = SAFE

\* the text handed to detect_allergens is absent, empty or all whitespace
Blank ==
    \/ ingredients_text = None
    \/ \A i \in 1..Len(ingredients_text[1]) : IsSpace(Ch(ingredients_text[1], i))

\* C12: for an absent, empty or whitespace-only text detect_allergens runs to
\* its return (normalization, then the early return), the normalized text is
\* empty and the result is direct = {}, mayContain = {}, confidence = {}.
C12_BlankIsEmpty ==
    /\ (pc = "call" /\ Blank) => ENABLED Normalize
    /\ (pc = "start" /\ Blank) => ENABLED ReturnEmpty
    /\ (pc = "done" /\ Blank) =>
           /\ text = ""
           /\ direct_matches = {}
           /\ may_contain_matches = {}
           /\ allergen_confidence = <<>>

\* a text of whitespace only has been processed
C12_Witness ==
    /\ pc = "done"
    /\ ingredients_text # None
    /\ ingredients_text[1] # ""
    /\ Blank
    /\ allergen_confidence = <<>>

\* C13: once every statement of the three passes has been applied to an empty
\* result, in whatever order, the result equals the one detect_allergens
\* returned with its own order (pattern, advisory, fuzzy).
C13_OrderIndependent ==
    (pc = "replay" /\ pending = {}) =>
        shared = <<direct_matches, may_contain_matches, allergen_confidence>>

\* an order the code never takes: a fuzzy score has been merged while the
\* pattern pass's add and the advisory pass's max for the same allergen are
\* still to come
C13_Witness ==
    /\ pc = "replay"
    /\ \E a \in Allergens :
           /\ <<"add", "pattern", a, Zero>> \in pending
           /\ <<"max", "advisory", a, <<9, 10>>>> \in pending
           /\ \E r \in ScoresBy(assigned, "fuzzy", a) : <<"max", "fuzzy", a, r>> \notin pending

\* the advisory windows of t: text[i : i + 11 + 80] for every index i at
\* which "may contain" occurs
WindowsOf(t) ==
    {Slice(t, i, i + Len(needle) + window_after) : i \in Occurrences(needle, t)}

\* C14: an allergen is in mayContain exactly when one of its keywords occurs
\* as a whole word, bounded by non-alphanumeric characters or the ends of the
\* slice, inside some advisory window; every member of mayContain has
\* confidence at least 0.9.
C14_WindowBound ==
    pc = "done" =>
        \A a \in Allergens :
            /\ a \in may_contain_matches <=>
                   \E w \in WindowsOf(text) : \E kw \in KeywordsOf(a) : WholeWord(kw, w)
            /\ a \in may_contain_matches =>
                   RGeq(Get(allergen_confidence, a, Zero), <<9, 10>>)

\* the list is exactly the left-to-right non-overlapping occurrences of the
\* phrase in t
ScanExact(ix, t) ==
    LET occ == Occurrences(needle, t)
        End(n) == IF n = 0 THEN 0 ELSE ix[n] + Len(needle)
    IN  /\ \A n \in 1..(Len(ix) - 1) : ix[n + 1] - ix[n] >= Len(needle)
        /\ \A n \in 1..Len(ix) :
               /\ ix[n] \in occ
               /\ ix[n] >= End(n - 1)
               /\ \A j \in occ : ~(End(n - 1) <= j /\ j < ix[n])
        /\ \A j \in occ : j < End(Len(ix))

\* C15: the "may contain" scan terminates, and the indices it returns are
\* strictly increasing, at least 11 apart, each the first occurrence at or
\* after the end of the previous one, with no such occurrence skipped; the
\* list is the one the advisory pass iterates over.
C15_ScanTerminatesExact ==
    /\ [](pc = "scanned" =>
              /\ ScanExact(may_contain_indices, text)
              /\ may_contain_indices = MayContainIndices(text, 0, <<>>))
    /\ (pc = "pattern") ~> (pc = "scanned")

C15_Witness ==
    /\ pc = "scanned"
    /\ Len(may_contain_indices) = 2
    /\ may_contain_indices[2] = may_contain_indices[1] + Len(needle) + 1

\* C16: every confidence detect_allergens returns lies in [0.85, 1.0]; a
\* scan, which hands the detection result to compute_risk_level unmodified,
\* gets the verdict of set membership alone: DANGER with profile /\ (direct -
\* mayContain) when that is non-empty, else WARNING with profile /\ mayContain
\* when that is non-empty, else SAFE.
C16_ConfidenceRange ==
    /\ pc \in {"done", "classified"} =>
           \A a \in DOMAIN allergen_confidence :
               /\ RGeq(allergen_confidence[a], <<17, 20>>)
               /\ RGeq(<<1, 1>>, allergen_confidence[a])
    /\ (pc = "classified" /\ confidences = Some(allergen_confidence)) =>
           LET d == Profile \cap (direct_matches \ may_contain_matches)
               w == Profile \cap may_contain_matches
           IN  /\ d # {} => risk_level = DANGER /\ SortedListOf(matched, d)
               /\ (d = {} /\ w # {}) => risk_level = WARNING /\ SortedListOf(matched, w)
               /\ (d = {} /\ w = {}) => risk_level = SAFE /\ matched = <<>>

\* a scan whose matched allergen was found by the fuzzy pass only, with a
\* confidence strictly between the floor and 1
C16_Witness ==
    /\ pc = "classified"
    /\ confidences = Some(allergen_confidence)
    /\ \E a \in SeqToSet(matched) :
           /\ RLess(allergen_confidence[a], <<1, 1>>)
           /\ allergen_confidence[a] # <<9, 10>>

\* no advisory window of t ends in the middle of a word: each window reaches
\* the end of t, or the characters on the two sides of its cut are not both
\* letters or digits
NoMidWordCut(t) ==
    \A i \in Occurrences(needle, t) :
        LET cut == i + Len(needle) + window_after
        IN  \/ cut >= Len(t)
            \/ ~(IsAlnum(Ch(t, cut)) /\ IsAlnum(Ch(t, cut + 1)))

\* C17: when no advisory window ends in the middle of a word, every allergen
\* of mayContain is also in direct with confidence 1.0, and direct -
\* mayContain holds only allergens that no advisory window names as a whole
\* word.
C17_AdvisoryAlsoDirect ==
    (pc = "done" /\ NoMidWordCut(text)) =>
        /\ \A a \in may_contain_matches :
               /\ a \in direct_matches
               /\ Get(allergen_confidence, a, Zero) = <<1, 1>>
        /\ \A a \in direct_matches \ may_contain_matches :
               ~\E w \in WindowsOf(text) : \E kw \in KeywordsOf(a) : WholeWord(kw, w)

\* C18: while a successful lookup of a barcode through get_or_refresh_product
\* is no older than STALE_DAYS, the products table and the api_cache table
\* hold its row, and a request for the barcode is answered from them without
\* a call to the upstream API; no barcode ever has two product rows.
C18_CachedAcrossRequests ==
    /\ \A b \in Barcodes :
           Fresh(b) =>
               /\ \E r \in products : r.barcode = b
               /\ \E e \in api_cache : e.key = CacheKey(b)
    /\ (response.endpoint \in {"scan", "product"} /\ response.fresh) =>
           response.status = 200 /\ ~response.upstream
    /\ \A b \in Barcodes : Cardinality({r \in products : r.barcode = b}) <= 1

=============================================================================
